---- MODULE Spec2Model ----
(***************************************************************************)
(* A model of modal_mcp/server.py: the MCP tools that wrap the modal CLI,  *)
(* the process runner (_run, _run_json), the streaming capture             *)
(* (_streaming_capture), the sandbox launcher (run_sandbox_command) and    *)
(* the output cleanup (_strip_rich).                                       *)
(*                                                                         *)
(* Text.  A character is a TLA+ string naming it: "a", " ", "[", "0", "m", *)
(* "ESC" (U+001B), "LF" (U+000A), "BOX" (a glyph in U+2500..U+257F).  Text  *)
(* that comes out of a child process is a sequence of characters.  A       *)
(* string built by an f-string is a sequence of parts: Lit(s) a literal of *)
(* the source, Txt(t) a run of characters, Num(n) an integer printed in    *)
(* decimal, Val(v) the text of a parameter.                                *)
(***************************************************************************)
EXTENDS Integers, Sequences, FiniteSets, TLC

VARIABLES
    pc,          \* "idle", "waiting" (blocked in run/communicate), "done", "raised"
    tool,        \* the tool function that was called
    params,      \* its parameters
    launched,    \* how many child processes the invocation has started
    argv,        \* the argument vector of the child
    child,       \* "none", "running", "exited", "killed"
    waitTimeout, \* the timeout= handed to subprocess.run / communicate
    elapsed,     \* seconds the invocation spent waiting on the child
    result,      \* the string returned to the caller
    exception,   \* the exception that left the tool function, or "none"
    tmpFile,     \* "none", "written", "deleted": the sandbox script file
    completed,   \* what became of the child: its exit code and output
    runRet,      \* the (success, text) _run returned, [none |-> TRUE] before
    fnPc,        \* position of a helper applied on its own
    fnIn,        \* its input
    fnOut        \* its output

vars == <<pc, tool, params, launched, argv, child, waitTimeout, elapsed,
          result, exception, tmpFile, completed, runRet, fnPc, fnIn, fnOut>>

toolVars == <<pc, tool, params, launched, argv, child, waitTimeout, elapsed,
              result, exception, tmpFile, completed, runRet>>

fnVars == <<fnPc, fnIn, fnOut>>

-----------------------------------------------------------------------------
(* Bounds of the model.                                                    *)

\* longest text handed to _strip_rich on its own
MaxStripLen == 6
\* requested durations range over ClampMin - DurationSlack .. ClampMax + DurationSlack
DurationSlack == 4
\* exit codes of the child range over 0 .. MaxExit
MaxExit == 2
\* cleaned outputs of TruncLimit - LenSlack .. TruncLimit + LenSlack characters
LenSlack == 8
\* sandbox timeouts 0 .. MaxTimeoutArg besides the default
MaxTimeoutArg == 2

-----------------------------------------------------------------------------
(* Characters and strings.                                                 *)

Lit(s) == [lit |-> s]
Txt(t) == [txt |-> t]
Num(n) == [num |-> n]
Val(v) == [val |-> v]

IsTxt(part) == DOMAIN part = {"txt"}

\* number of decimal digits str(n) prints, sign included
RECURSIVE DecLen(_)
DecLen(n) == IF n < 0 THEN 1 + DecLen(-n)
             ELSE IF n < 10 THEN 1 ELSE 1 + DecLen(n \div 10)

PartLen(part) ==
    IF DOMAIN part = {"lit"} THEN Len(part.lit)
    ELSE IF DOMAIN part = {"txt"} THEN Len(part.txt)
    ELSE IF DOMAIN part = {"num"} THEN DecLen(part.num)
    ELSE 1

\* len() of a string given as parts
RECURSIVE StrLen(_)
StrLen(s) == IF s = <<>> THEN 0 ELSE PartLen(Head(s)) + StrLen(Tail(s))

\* re: [\u2500-\u257f]
IsBox(c) == c = "BOX"

\* re: [0-9;]
IsSgrParam(c) == c \in {"0", ";"}

\* str.strip() and str.splitlines()
IsSpace(c) == c \in {" ", "LF"}
IsLineEnd(c) == c = "LF"

RECURSIVE LStrip(_)
LStrip(t) == IF t # <<>> /\ IsSpace(Head(t)) THEN LStrip(Tail(t)) ELSE t

RECURSIVE RStrip(_)
RStrip(t) ==
    IF t # <<>> /\ IsSpace(t[Len(t)]) THEN RStrip(SubSeq(t, 1, Len(t) - 1)) ELSE t

\* str.strip()
Strip(t) == RStrip(LStrip(t))

\* re.sub(r'[\u2500-\u257f]', '', text)
RemoveBox(t) == SelectSeq(t, LAMBDA c : ~IsBox(c))

\* the index just past the run of [0-9;] that starts at i
RECURSIVE ParamsEnd(_, _)
ParamsEnd(t, i) ==
    IF i <= Len(t) /\ IsSgrParam(t[i]) THEN ParamsEnd(t, i + 1) ELSE i

\* does  \x1b\[[0-9;]*m  match at i; the match then ends at ParamsEnd(t, i + 2)
SgrAt(t, i) ==
    /\ i + 2 <= Len(t)
    /\ t[i] = "ESC"
    /\ t[i + 1] = "["
    /\ ParamsEnd(t, i + 2) <= Len(t)
    /\ t[ParamsEnd(t, i + 2)] = "m"

\* re.sub(r'\x1b\[[0-9;]*m', '', text): one left-to-right pass
RECURSIVE RemoveSgrFrom(_, _)
RemoveSgrFrom(t, i) ==
    IF i > Len(t) THEN <<>>
    ELSE IF SgrAt(t, i) THEN RemoveSgrFrom(t, ParamsEnd(t, i + 2) + 1)
    ELSE <<t[i]>> \o RemoveSgrFrom(t, i + 1)

RemoveSgr(t) == RemoveSgrFrom(t, 1)

\* re.sub(r' {2,}', ' ', text)
RECURSIVE CollapseSpaces(_)
CollapseSpaces(t) ==
    IF t = <<>> THEN <<>>
    ELSE IF Len(t) >= 2 /\ t[1] = " " /\ t[2] = " " THEN CollapseSpaces(Tail(t))
    ELSE <<Head(t)>> \o CollapseSpaces(Tail(t))

\* the index of the first line end at or after i, Len(t) + 1 when there is none
RECURSIVE LineEnd(_, _)
LineEnd(t, i) ==
    IF i > Len(t) \/ IsLineEnd(t[i]) THEN i ELSE LineEnd(t, i + 1)

\* text.splitlines(): no empty last line after a final line end
RECURSIVE SplitLinesFrom(_, _)
SplitLinesFrom(t, i) ==
    IF i > Len(t) THEN <<>>
    ELSE <<SubSeq(t, i, LineEnd(t, i) - 1)>> \o SplitLinesFrom(t, LineEnd(t, i) + 1)

SplitLines(t) == SplitLinesFrom(t, 1)

\* '\n'.join(lines)
RECURSIVE JoinLines(_)
JoinLines(lines) ==
    IF lines = <<>> THEN <<>>
    ELSE IF Len(lines) = 1 THEN lines[1]
    ELSE lines[1] \o <<"LF">> \o JoinLines(Tail(lines))

StrippedLines(t) == [k \in 1..Len(SplitLines(t)) |-> Strip(SplitLines(t)[k])]

\* _strip_rich(text)
_strip_rich(text) ==
    LET noBox == RemoveBox(text)
        noSgr == RemoveSgr(noBox)
        oneSp == CollapseSpaces(noSgr)
        lines == SelectSeq(StrippedLines(oneSp), LAMBDA l : l # <<>>)
    IN  JoinLines(lines)

\* what the output convention promises of a text
HasBox(t) == \E i \in 1..Len(t) : IsBox(t[i])
HasSgr(t) == \E i \in 1..Len(t) : SgrAt(t, i)
HasSpaceRun(t) == \E i \in 1..(Len(t) - 1) : t[i] = " " /\ t[i + 1] = " "
IsClean(t) == ~HasBox(t) /\ ~HasSgr(t) /\ ~HasSpaceRun(t)

-----------------------------------------------------------------------------
(* The tools and their parameters.                                         *)

DestructiveTools ==
    {"delete_volume", "delete_secret", "delete_queue", "delete_dict",
     "delete_environment"}

\* tools that return _run_json(*args)
JsonTools == {"list_apps", "list_containers", "list_volumes"}

\* tools that return _streaming_capture(*args, duration=duration)
StreamTools == {"app_logs", "container_logs"}

SandboxTools == {"run_sandbox_command", "run_python_in_sandbox"}

PathTools == {"deploy_app", "run_app", "upload_to_volume"}

\* tools that build an argument vector and return the text of _run
PlainTools ==
    {"stop_app", "stop_container", "list_volume_contents", "create_volume",
     "rename_volume", "download_from_volume", "remove_volume_file",
     "list_secrets", "list_queues", "create_queue", "clear_queue",
     "peek_queue", "queue_length", "list_dicts", "create_dict", "clear_dict",
     "get_dict_value", "list_dict_items", "list_environments",
     "create_environment", "current_profile", "token_info", "billing_usage"}

Tools ==
    DestructiveTools \cup JsonTools \cup StreamTools \cup SandboxTools
        \cup PathTools \cup PlainTools \cup {"create_secret"}

\* which helper runs the child
Runner(t) ==
    IF t \in JsonTools THEN "run_json"
    ELSE IF t \in StreamTools THEN "stream"
    ELSE IF t \in SandboxTools THEN "sandbox"
    ELSE "run"

DefaultTimeout == 120
DeployTimeout == 300
BillingTimeout == 30
SandboxGrace == 60
ClampMin == 3
ClampMax == 60
DefaultDuration == 10
TruncLimit == 30000
HeadLen == 5000
TailLen == 25000

\* the timeout= a tool hands to _run
RunTimeout(t) ==
    IF t \in {"deploy_app", "run_app"} THEN DeployTimeout
    ELSE IF t = "billing_usage" THEN BillingTimeout
    ELSE DefaultTimeout

\* a path as pathlib sees it
Paths == [abs : BOOLEAN, exists : BOOLEAN, suffix : {".py", ".txt"}]

DefaultPath == [abs |-> TRUE, exists |-> TRUE, suffix |-> ".py"]

\* Optional[str] parameters: None, the empty string, a name
EnvValues == {"None", "", "prod"}

Names == {"n1", ""}

Truthy(s) == s \notin {"None", ""}

Durations ==
    ((ClampMin - DurationSlack)..(ClampMin + 1))
        \cup ((ClampMax - 1)..(ClampMax + DurationSlack))
        \cup {DefaultDuration}

SandboxTimeouts == (0..MaxTimeoutArg) \cup {DefaultTimeout}

DefaultParams ==
    [name |-> "n1", confirm |-> FALSE, environment |-> "None",
     path |-> DefaultPath, force |-> FALSE, kvEmpty |-> FALSE,
     duration |-> DefaultDuration, timeout |-> DefaultTimeout]

\* the parameter values a call of tool t is tried with
ParamsFor(t) ==
    IF t \in DestructiveTools THEN
        {[DefaultParams EXCEPT !.name = n, !.confirm = c, !.environment = e] :
            n \in Names, c \in BOOLEAN,
            e \in IF t = "delete_environment" THEN {"None"} ELSE EnvValues}
    ELSE IF t \in {"deploy_app", "run_app"} THEN
        {[DefaultParams EXCEPT !.path = q, !.environment = e] :
            q \in Paths, e \in {"None", "prod"}}
    ELSE IF t = "upload_to_volume" THEN
        {[DefaultParams EXCEPT !.path = q, !.name = n, !.force = f,
                               !.environment = e] :
            q \in Paths, n \in Names, f \in BOOLEAN, e \in {"None", "prod"}}
    ELSE IF t = "create_secret" THEN
        {[DefaultParams EXCEPT !.kvEmpty = k] : k \in BOOLEAN}
    ELSE IF t \in StreamTools THEN
        {[DefaultParams EXCEPT !.duration = d] : d \in Durations}
    ELSE IF t \in SandboxTools THEN
        {[DefaultParams EXCEPT !.timeout = s] : s \in SandboxTimeouts}
    ELSE {DefaultParams}

\* the fixed string a destructive tool returns without confirmation
SafetyMessage(t) ==
    IF t = "delete_volume" THEN
        "Safety check: set confirm=True to actually delete the volume. This cannot be undone."
    ELSE IF t = "delete_secret" THEN
        "Safety check: set confirm=True to actually delete the secret. This cannot be undone."
    ELSE IF t = "delete_queue" THEN
        "Safety check: set confirm=True to actually delete the queue."
    ELSE IF t = "delete_dict" THEN
        "Safety check: set confirm=True to actually delete the dict."
    ELSE
        "Safety check: set confirm=True to actually delete the environment. All resources in it will be deleted."

\* SafetyGate without the check in delete_dict
SafetyGateMutant(t, p) == t \in DestructiveTools \ {"delete_dict"} /\ ~p.confirm
\* if not confirm: return "Safety check: ..."
SafetyGate(t, p) == t \in DestructiveTools /\ ~p.confirm

\* DeployChecks with exists() asked before is_absolute()
DeployChecksMutant(p) ==
    IF ~p.path.exists THEN
        <<Lit("Error: File not found: "), Val(p.path)>>
    ELSE IF ~p.path.abs THEN
        <<Lit("Error: Path must be absolute, got: "), Val(p.path)>>
    ELSE IF p.path.suffix # ".py" THEN
        <<Lit("Error: Expected a .py file, got: "), Val(p.path.suffix)>>
    ELSE <<>>
\* the checks of deploy_app, in the order of the code
DeployChecks(p) ==
    IF ~p.path.abs THEN
        <<Lit("Error: Path must be absolute, got: "), Val(p.path)>>
    ELSE IF ~p.path.exists THEN
        <<Lit("Error: File not found: "), Val(p.path)>>
    ELSE IF p.path.suffix # ".py" THEN
        <<Lit("Error: Expected a .py file, got: "), Val(p.path.suffix)>>
    ELSE <<>>

\* the checks of run_app
RunAppChecks(p) ==
    IF ~p.path.abs THEN
        <<Lit("Error: Path must be absolute, got: "), Val(p.path)>>
    ELSE IF ~p.path.exists THEN
        <<Lit("Error: File not found: "), Val(p.path)>>
    ELSE <<>>

\* UploadChecks without the exists() check
UploadChecksMutant(p) == <<>>
\* the check of upload_to_volume
UploadChecks(p) ==
    IF ~p.path.exists THEN
        <<Lit("Error: Local path not found: "), Val(p.path)>>
    ELSE <<>>

\* the string a tool returns before it starts any child, <<>> when its
\* checks pass
Rejection(t, p) ==
    IF SafetyGate(t, p) THEN <<Lit(SafetyMessage(t))>>
    ELSE IF t = "deploy_app" THEN DeployChecks(p)
    ELSE IF t = "run_app" THEN RunAppChecks(p)
    ELSE IF t = "upload_to_volume" THEN UploadChecks(p)
    ELSE IF t = "create_secret" /\ p.kvEmpty THEN
        <<Lit("Error: key_values must contain at least one key-value pair.")>>
    ELSE <<>>

\* args.extend(["--env", environment]) under  if environment:
EnvArgs(p) ==
    IF Truthy(p.environment) THEN <<"--env", Val(p.environment)>> ELSE <<>>

DeleteGroup(t) ==
    IF t = "delete_volume" THEN "volume"
    ELSE IF t = "delete_secret" THEN "secret"
    ELSE IF t = "delete_queue" THEN "queue"
    ELSE IF t = "delete_dict" THEN "dict"
    ELSE "environment"

\* the arguments a tool hands to its helper
Args(t, p) ==
    IF t \in DestructiveTools THEN
        <<DeleteGroup(t), "delete", Val(p.name), "--yes">>
            \o (IF t = "delete_environment" THEN <<>> ELSE EnvArgs(p))
    ELSE IF t = "deploy_app" THEN <<"deploy", Val(p.path)>> \o EnvArgs(p)
    ELSE IF t = "run_app" THEN <<"run", Val(p.path)>> \o EnvArgs(p)
    ELSE IF t = "upload_to_volume" THEN
        <<"volume", "put", Val(p.name), Val(p.path), "/">>
            \o (IF p.force THEN <<"--force">> ELSE <<>>) \o EnvArgs(p)
    ELSE IF t = "app_logs" THEN <<"app", "logs", Val(p.name)>> \o EnvArgs(p)
    ELSE IF t = "container_logs" THEN <<"container", "logs", Val(p.name)>>
    ELSE IF t = "list_apps" THEN <<"app", "list">> \o EnvArgs(p)
    ELSE IF t = "list_containers" THEN <<"container", "list">> \o EnvArgs(p)
    ELSE IF t = "list_volumes" THEN <<"volume", "list">> \o EnvArgs(p)
    ELSE <<t>>

-----------------------------------------------------------------------------
(* The process runner.                                                     *)

\* OnRunTimeout of a runner that raises TimeoutExpired and lets the child be
OnRunTimeoutMutant == "running"
\* what subprocess.run does to the child when its timeout expires: it kills
\* the child and waits for it before TimeoutExpired is raised
OnRunTimeout == "killed"

\* RunCompleted taking output on stderr for a failure
RunCompletedMutant(rc, stdout, stderr) ==
    LET out == Strip(stdout)
        err == IF stderr # <<>> THEN _strip_rich(Strip(stderr)) ELSE <<>>
    IN  IF rc = 0 /\ err = <<>> THEN
            [ok |-> TRUE, text |-> IF out # <<>> THEN <<Txt(out)>> ELSE <<Lit("OK")>>]
        ELSE
            [ok |-> FALSE,
             text |-> IF err # <<>> THEN <<Lit("Error: "), Txt(err)>>
                      ELSE <<Lit("Command failed (exit "), Num(rc), Lit(")")>>]
\* _run, the child has exited with returncode rc: (success, text)
RunCompleted(rc, stdout, stderr) ==
    LET out == Strip(stdout)
        err == IF stderr # <<>> THEN _strip_rich(Strip(stderr)) ELSE <<>>
    IN  IF rc = 0 THEN
            [ok |-> TRUE,
             text |-> IF out # <<>> THEN <<Txt(out)>>
                      ELSE IF err # <<>> THEN <<Txt(err)>> ELSE <<Lit("OK")>>]
        ELSE
            [ok |-> FALSE,
             text |-> IF err # <<>> THEN <<Lit("Error: "), Txt(err)>>
                      ELSE <<Lit("Command failed (exit "), Num(rc), Lit(")")>>]

\* _run, except subprocess.TimeoutExpired
RunTimedOut(timeout) ==
    [ok |-> FALSE,
     text |-> <<Lit("Command timed out after "), Num(timeout), Lit("s")>>]

\* _run, except FileNotFoundError
RunNotFound ==
    [ok |-> FALSE,
     text |-> <<Lit("Modal CLI not found. Install: pip install modal && python3 -m modal setup")>>]

\* json.loads on the texts the model's children print.  A value is
\* [list |-> items], [dict |-> <<key, value>> pairs], [scalar |-> text] or
\* [invalid |-> TRUE] for json.JSONDecodeError
JsonEmptyList == <<"[", "]">>
JsonIntList == <<"[", "0", "]">>
JsonDictList == <<"[", "{", "\"", "k", "\"", ":", "0", "}", "]">>
JsonDict == <<"{", "\"", "k", "\"", ":", "0", "}">>
JsonDict2 == <<"{", "\"", "k", "\"", ":", "0", ",", "\"", "j", "\"", ":", "0", "}">>
JsonScalar == <<"0">>

JsonLoads(text) ==
    IF text = <<Txt(JsonEmptyList)>> THEN [list |-> <<>>]
    ELSE IF text = <<Txt(JsonIntList)>> THEN [list |-> <<[scalar |-> "0"]>>]
    ELSE IF text = <<Txt(JsonDictList)>> THEN
        [list |-> <<[dict |-> << <<"k", "0">> >>]>>]
    ELSE IF text = <<Txt(JsonDict)>> THEN [dict |-> << <<"k", "0">> >>]
    ELSE IF text = <<Txt(JsonDict2)>> THEN
        [dict |-> << <<"k", "0">>, <<"j", "0">> >>]
    ELSE IF text = <<Txt(JsonScalar)>> THEN [scalar |-> "0"]
    ELSE [invalid |-> TRUE]

IsList(v) == DOMAIN v = {"list"}
IsDict(v) == DOMAIN v = {"dict"}
IsInvalid(v) == DOMAIN v = {"invalid"}

\* sep.join(strs), the strings given as parts
RECURSIVE Join(_, _)
Join(sep, strs) ==
    IF strs = <<>> THEN <<>>
    ELSE IF Len(strs) = 1 THEN strs[1]
    ELSE strs[1] \o <<Lit(sep)>> \o Join(sep, Tail(strs))

\* '\n'.join(f"{indent}{k}: {v}" for k, v in item.items())
DictLines(indent, d) ==
    Join("\n", [i \in 1..Len(d.dict) |->
                   <<Lit(indent), Val(d.dict[i][1]), Lit(": "), Val(d.dict[i][2])>>])

\* RunJson without the  if not data  branch: an empty list is joined to ''
RunJsonMutant(r) ==
    IF ~r.ok THEN [raised |-> "none", text |-> r.text]
    ELSE LET data == JsonLoads(r.text) IN
        IF IsInvalid(data) THEN [raised |-> "none", text |-> r.text]
        ELSE IF IsList(data) THEN
            IF \E i \in 1..Len(data.list) : ~IsDict(data.list[i]) THEN
                [raised |-> "AttributeError", text |-> <<>>]
            ELSE [raised |-> "none",
                  text |-> Join("\n\n", [i \in 1..Len(data.list) |->
                                            DictLines("  ", data.list[i])])]
        ELSE IF IsDict(data) THEN
            [raised |-> "none", text |-> DictLines("", data)]
        ELSE [raised |-> "none", text |-> <<Val(data.scalar)>>]
\* _run_json after _run returned r: the string returned, or the exception
\* that leaves it.  item.items() raises AttributeError on an item that is
\* no dict; the except clause names JSONDecodeError and TypeError
RunJson(r) ==
    IF ~r.ok THEN [raised |-> "none", text |-> r.text]
    ELSE LET data == JsonLoads(r.text) IN
        IF IsInvalid(data) THEN [raised |-> "none", text |-> r.text]
        ELSE IF IsList(data) THEN
            IF data.list = <<>> THEN
                [raised |-> "none", text |-> <<Lit("No results.")>>]
            ELSE IF \E i \in 1..Len(data.list) : ~IsDict(data.list[i]) THEN
                [raised |-> "AttributeError", text |-> <<>>]
            ELSE [raised |-> "none",
                  text |-> Join("\n\n", [i \in 1..Len(data.list) |->
                                            DictLines("  ", data.list[i])])]
        ELSE IF IsDict(data) THEN
            [raised |-> "none", text |-> DictLines("", data)]
        ELSE [raised |-> "none", text |-> <<Val(data.scalar)>>]

\* what a tool built on _run or _run_json makes of _run's (success, text)
ToolOutcome(t, r) ==
    IF Runner(t) = "run_json" THEN RunJson(r)
    ELSE [raised |-> "none", text |-> r.text]

-----------------------------------------------------------------------------
(* The streaming capture.                                                  *)

Min(a, b) == IF a < b THEN a ELSE b
Max(a, b) == IF a > b THEN a ELSE b
\* Clamp without the upper limit
ClampMutant(d) == Max(d, ClampMin)
\* duration = min(max(duration, 3), 60)
Clamp(d) == Min(Max(d, ClampMin), ClampMax)

TruncMarker == "\n\n... [truncated middle] ...\n\n"

\* Truncate keeping the last 30000 characters as the tail
TruncateMutant(out) ==
    IF Len(out) > TruncLimit THEN
        <<Txt(SubSeq(out, 1, HeadLen)), Lit(TruncMarker),
          Txt(SubSeq(out, Len(out) - TruncLimit + 1, Len(out)))>>
    ELSE <<Txt(out)>>
\* if len(out) > 30000: head, tail = out[:5000], out[-25000:]
Truncate(out) ==
    IF Len(out) > TruncLimit THEN
        <<Txt(SubSeq(out, 1, HeadLen)), Lit(TruncMarker),
          Txt(SubSeq(out, Len(out) - TailLen + 1, Len(out)))>>
    ELSE <<Txt(out)>>

\* _streaming_capture from the cleaned out and err on: what it returns
CaptureFormat(out, err, duration) ==
    IF err # <<>> /\ out = <<>> THEN <<Lit("Error: "), Txt(err)>>
    ELSE IF out # <<>> THEN
        Truncate(out) \o <<Lit("\n\n(Captured "), Num(duration), Lit("s of log stream)")>>
    ELSE <<Lit("No output captured in "), Num(duration), Lit("s.")>>

\* _streaming_capture once communicate() has returned stdout and stderr
CaptureResult(stdout, stderr, duration) ==
    LET out == IF stdout # <<>> THEN _strip_rich(stdout) ELSE <<>>
        err == IF stderr # <<>> THEN _strip_rich(stderr) ELSE <<>>
    IN  CaptureFormat(out, err, duration)

\* OnCaptureTimeout of a capture that returns without proc.kill()
OnCaptureTimeoutMutant == "running"
\* except subprocess.TimeoutExpired: proc.kill(), then communicate() waits
\* for the child to be gone
OnCaptureTimeout == "killed"

\* _streaming_capture, except FileNotFoundError
CaptureNotFound == <<Lit("Error: Modal CLI not found.")>>

-----------------------------------------------------------------------------
(* The sandbox launcher.  The markers the generated script prints are      *)
(* single characters of the runner's output here.                          *)

\* the segments of t between the occurrences of the marker: str.split
RECURSIVE SplitOnFrom(_, _, _)
SplitOnFrom(t, marker, i) ==
    LET hits == {j \in i..Len(t) : t[j] = marker} IN
    IF hits = {} THEN <<SubSeq(t, i, Len(t))>>
    ELSE LET j == CHOOSE k \in hits : \A h \in hits : k <= h
         IN  <<SubSeq(t, i, j - 1)>> \o SplitOnFrom(t, marker, j + 1)

SplitOn(t, marker) == SplitOnFrom(t, marker, 1)

Contains(t, marker) == \E i \in 1..Len(t) : t[i] = marker

\* sb_out, as run_sandbox_command takes it out of r.stdout
SandboxOut(output) ==
    IF Contains(output, "===STDOUT===") THEN
        Strip(SplitOn(SplitOn(output, "===STDOUT===")[2], "===STDERR===")[1])
    ELSE <<>>

\* sb_err: the text after ===STDERR===, split at the literal "===RC==="
SandboxErr(output) ==
    IF Contains(output, "===STDERR===") THEN
        Strip(SplitOn(SplitOn(output, "===STDERR===")[2], "===RC===")[1])
    ELSE <<>>

\* run_sandbox_command once the runner has exited: what it returns
SandboxResult(stdout, stderr) ==
    LET sb_out == SandboxOut(stdout)
        sb_err == SandboxErr(stdout)
        lines ==
            (IF sb_out # <<>> THEN << <<Txt(sb_out)>> >> ELSE <<>>)
            \o (IF sb_err # <<>> THEN << <<Lit("Stderr: "), Txt(sb_err)>> >> ELSE <<>>)
            \o (IF stderr # <<>> /\ Strip(stderr) # <<>>
                THEN << <<Lit("Runner: "), Txt(_strip_rich(Strip(stderr)))>> >>
                ELSE <<>>)
    IN  IF lines # <<>> THEN Join("\n", lines)
        ELSE <<Lit("Sandbox completed with no output.")>>

\* AfterSandbox of a launcher that unlinks on the paths that return only
AfterSandboxMutant(path) == IF path = "raised" THEN "written" ELSE "deleted"
\* finally: os.unlink(tmp_path), on the path that returns the parsed output
\* ("exit"), the one that returns the timeout message ("timeout") and the
\* one an exception leaves ("raised")
AfterSandbox(path) == "deleted"

\* run_sandbox_command, except subprocess.TimeoutExpired
SandboxTimedOut(timeout) ==
    <<Lit("Error: Sandbox timed out after "), Num(timeout + SandboxGrace), Lit("s")>>

-----------------------------------------------------------------------------
(* What the children print.                                                *)

StdoutSamples ==
    {<<>>, <<"a">>, <<" ", "LF">>, <<"BOX", "a", " ", " ", "b", "LF">>,
     <<"ESC", "[", "0", "m", "a">>,
     JsonEmptyList, JsonIntList, JsonDictList, JsonDict, JsonDict2, JsonScalar}

StderrSamples ==
    {<<>>, <<"e">>, <<" ", "LF">>, <<"BOX", "e", " ", " ", "r">>,
     <<"ESC", "[", "0", "m", "e">>}

\* stdout of the generated script: nothing (it failed before printing), or
\* the three markers around the sandbox's stdout and stderr
RunnerStdoutSamples ==
    {<<>>,
     <<"===STDOUT===", "LF", "LF", "===STDERR===", "LF", "LF", "===RC=0===", "LF">>,
     <<"===STDOUT===", "LF", "a", "LF", "===STDERR===", "LF", "LF", "===RC=0===", "LF">>,
     <<"===STDOUT===", "LF", "LF", "===STDERR===", "LF", "e", "LF", "===RC=1===", "LF">>,
     <<"===STDOUT===", "LF", "a", "LF", "===STDERR===", "LF", "e", "LF", "===RC=1===", "LF">>}

ExitCodes == 0..MaxExit

\* when a child that finishes by itself does so: at once, or just in time
ExitTimes(timeout) == {0, timeout - 1}

-----------------------------------------------------------------------------
(* One tool invocation.                                                    *)

Init ==
    /\ pc = "idle"
    /\ tool = "none"
    /\ params = [none |-> TRUE]
    /\ launched = 0
    /\ argv = <<>>
    /\ child = "none"
    /\ waitTimeout = 0
    /\ elapsed = 0
    /\ result = <<>>
    /\ exception = "none"
    /\ tmpFile = "none"
    /\ completed = [kind |-> "none"]
    /\ runRet = [none |-> TRUE]
    /\ fnPc = "none"
    /\ fnIn = <<>>
    /\ fnOut = <<>>

\* a tool's checks reject the call: it returns before any child is started
CallRejected(t, p) ==
    /\ pc = "idle"
    /\ Rejection(t, p) # <<>>
    /\ tool' = t
    /\ params' = p
    /\ result' = Rejection(t, p)
    /\ pc' = "done"
    /\ UNCHANGED <<launched, argv, child, waitTimeout, elapsed, exception,
                   tmpFile, completed, runRet, fnVars>>

\* _run, _run_json or _streaming_capture starts the modal CLI and waits
CallLaunch(t, p) ==
    /\ pc = "idle"
    /\ Runner(t) # "sandbox"
    /\ Rejection(t, p) = <<>>
    /\ tool' = t
    /\ params' = p
    /\ launched' = launched + 1
    /\ argv' = <<"modal">> \o Args(t, p)
                \o (IF Runner(t) = "run_json" THEN <<"--json">> ELSE <<>>)
    /\ child' = "running"
    /\ waitTimeout' = IF Runner(t) = "stream" THEN Clamp(p.duration)
                      ELSE RunTimeout(t)
    /\ pc' = "waiting"
    /\ UNCHANGED <<elapsed, result, exception, tmpFile, completed, runRet, fnVars>>

\* the modal executable is not there: FileNotFoundError, caught by the helper
CallNotFound(t, p) ==
    /\ pc = "idle"
    /\ Runner(t) # "sandbox"
    /\ Rejection(t, p) = <<>>
    /\ tool' = t
    /\ params' = p
    /\ completed' = [kind |-> "notfound"]
    /\ runRet' = IF Runner(t) = "stream" THEN runRet ELSE RunNotFound
    /\ result' = IF Runner(t) = "stream" THEN CaptureNotFound
                 ELSE ToolOutcome(t, RunNotFound).text
    /\ pc' = "done"
    /\ UNCHANGED <<launched, argv, child, waitTimeout, elapsed, exception,
                   tmpFile, fnVars>>

\* run_sandbox_command writes the script and starts the interpreter on it
CallSandbox(t, p) ==
    /\ pc = "idle"
    /\ Runner(t) = "sandbox"
    /\ tool' = t
    /\ params' = p
    /\ tmpFile' = "written"
    /\ launched' = launched + 1
    /\ argv' = <<"sys.executable", "tmp_path">>
    /\ child' = "running"
    /\ waitTimeout' = p.timeout + SandboxGrace
    /\ pc' = "waiting"
    /\ UNCHANGED <<elapsed, result, exception, completed, runRet, fnVars>>

\* the interpreter cannot be started: the exception is not caught, the
\* finally clause removes the script
CallSandboxRaises(t, p) ==
    /\ pc = "idle"
    /\ Runner(t) = "sandbox"
    /\ tool' = t
    /\ params' = p
    /\ tmpFile' = AfterSandbox("raised")
    /\ completed' = [kind |-> "notfound"]
    /\ exception' = "FileNotFoundError"
    /\ pc' = "raised"
    /\ UNCHANGED <<launched, argv, child, waitTimeout, elapsed, result,
                   runRet, fnVars>>

\* Finish starting the child once more when _run reports a failure
FinishMutant(r) ==
    /\ runRet' = r
    /\ IF ~r.ok /\ launched < 2
       THEN /\ launched' = launched + 1
            /\ pc' = "waiting"
            /\ UNCHANGED <<result, exception>>
       ELSE /\ result' = ToolOutcome(tool, r).text
            /\ pc' = "done"
            /\ UNCHANGED <<exception, launched>>
\* the end of a tool built on _run or _run_json, _run having returned r:
\* the text is returned as it is, no child is started again
Finish(r) ==
    /\ runRet' = r
    /\ UNCHANGED launched
    /\ IF ToolOutcome(tool, r).raised # "none"
       THEN /\ exception' = ToolOutcome(tool, r).raised
            /\ pc' = "raised"
            /\ UNCHANGED result
       ELSE /\ result' = ToolOutcome(tool, r).text
            /\ pc' = "done"
            /\ UNCHANGED exception

\* the child of _run exits within the timeout
RunExits(rc, stdout, stderr, e) ==
    /\ pc = "waiting"
    /\ Runner(tool) \in {"run", "run_json"}
    /\ child' = "exited"
    /\ elapsed' = e
    /\ completed' = [kind |-> "exit", rc |-> rc, stdout |-> stdout, stderr |-> stderr]
    /\ Finish(RunCompleted(rc, stdout, stderr))
    /\ UNCHANGED <<tool, params, argv, waitTimeout, tmpFile, fnVars>>

\* the child of _run is still running when the timeout expires
RunTimesOut ==
    /\ pc = "waiting"
    /\ Runner(tool) \in {"run", "run_json"}
    /\ child' = OnRunTimeout
    /\ elapsed' = waitTimeout
    /\ completed' = [kind |-> "timeout"]
    /\ Finish(RunTimedOut(RunTimeout(tool)))
    /\ UNCHANGED <<tool, params, argv, waitTimeout, tmpFile, fnVars>>

\* the child of _streaming_capture exits before the duration is over
StreamExits(stdout, stderr, e) ==
    /\ pc = "waiting"
    /\ Runner(tool) = "stream"
    /\ child' = "exited"
    /\ elapsed' = e
    /\ completed' = [kind |-> "exit", stdout |-> stdout, stderr |-> stderr]
    /\ result' = CaptureResult(stdout, stderr, Clamp(params.duration))
    /\ pc' = "done"
    /\ UNCHANGED <<tool, params, launched, argv, waitTimeout, exception,
                   tmpFile, runRet, fnVars>>

\* the duration is over: proc.kill(), then communicate() collects what the
\* child had written
StreamTimesOut(stdout, stderr) ==
    /\ pc = "waiting"
    /\ Runner(tool) = "stream"
    /\ child' = OnCaptureTimeout
    /\ elapsed' = waitTimeout
    /\ completed' = [kind |-> "timeout", stdout |-> stdout, stderr |-> stderr]
    /\ result' = CaptureResult(stdout, stderr, Clamp(params.duration))
    /\ pc' = "done"
    /\ UNCHANGED <<tool, params, launched, argv, waitTimeout, exception,
                   tmpFile, runRet, fnVars>>

\* the runner of the sandbox exits within timeout + 60 seconds
SandboxExits(rc, stdout, stderr, e) ==
    /\ pc = "waiting"
    /\ Runner(tool) = "sandbox"
    /\ child' = "exited"
    /\ elapsed' = e
    /\ completed' = [kind |-> "exit", rc |-> rc, stdout |-> stdout, stderr |-> stderr]
    /\ result' = SandboxResult(stdout, stderr)
    /\ tmpFile' = AfterSandbox("exit")
    /\ pc' = "done"
    /\ UNCHANGED <<tool, params, launched, argv, waitTimeout, exception,
                   runRet, fnVars>>

\* the runner of the sandbox is still running after timeout + 60 seconds
SandboxTimesOut ==
    /\ pc = "waiting"
    /\ Runner(tool) = "sandbox"
    /\ child' = OnRunTimeout
    /\ elapsed' = waitTimeout
    /\ completed' = [kind |-> "timeout"]
    /\ result' = SandboxTimedOut(params.timeout)
    /\ tmpFile' = AfterSandbox("timeout")
    /\ pc' = "done"
    /\ UNCHANGED <<tool, params, launched, argv, waitTimeout, exception,
                   runRet, fnVars>>

Next ==
    \/ \E t \in Tools : \E p \in ParamsFor(t) : CallRejected(t, p)
    \/ \E t \in Tools : \E p \in ParamsFor(t) : CallLaunch(t, p)
    \/ \E t \in Tools : \E p \in ParamsFor(t) : CallNotFound(t, p)
    \/ \E t \in Tools : \E p \in ParamsFor(t) : CallSandbox(t, p)
    \/ \E t \in Tools : \E p \in ParamsFor(t) : CallSandboxRaises(t, p)
    \/ \E rc \in ExitCodes, so \in StdoutSamples, se \in StderrSamples :
          \E e \in ExitTimes(waitTimeout) : RunExits(rc, so, se, e)
    \/ RunTimesOut
    \/ \E so \in StdoutSamples, se \in StderrSamples :
          \E e \in ExitTimes(waitTimeout) : StreamExits(so, se, e)
    \/ \E so \in StdoutSamples, se \in StderrSamples : StreamTimesOut(so, se)
    \/ \E rc \in ExitCodes, so \in RunnerStdoutSamples, se \in StderrSamples :
          \E e \in ExitTimes(waitTimeout) : SandboxExits(rc, so, se, e)
    \/ SandboxTimesOut

Spec == Init /\ [][Next]_vars

-----------------------------------------------------------------------------
(* _strip_rich applied on its own to every text of up to MaxStripLen       *)
(* characters.                                                             *)

Alphabet == {"ESC", "[", "0", "m", "BOX", " ", "LF", "a"}

StripInputs == UNION {[1..n -> Alphabet] : n \in 0..MaxStripLen}

ToolIdle ==
    /\ pc = "idle"
    /\ tool = "none"
    /\ params = [none |-> TRUE]
    /\ launched = 0
    /\ argv = <<>>
    /\ child = "none"
    /\ waitTimeout = 0
    /\ elapsed = 0
    /\ result = <<>>
    /\ exception = "none"
    /\ tmpFile = "none"
    /\ completed = [kind |-> "none"]
    /\ runRet = [none |-> TRUE]

InitStrip ==
    /\ ToolIdle
    /\ fnPc = "strip"
    /\ fnIn \in StripInputs
    /\ fnOut = <<>>

ApplyStrip ==
    /\ fnPc = "strip"
    /\ fnOut' = _strip_rich(fnIn)
    /\ fnPc' = "stripped"
    /\ UNCHANGED <<fnIn, toolVars>>

NextStrip == ApplyStrip

SpecStrip == InitStrip /\ [][NextStrip]_vars

-----------------------------------------------------------------------------
(* The tail of _streaming_capture applied on its own to cleaned outputs    *)
(* around the truncation limit.                                            *)

DigitChars == <<"0", "1", "2", "3", "4", "5", "6", "7", "8", "9">>

\* a cleaned output of n characters whose i-th character tells i mod 10
DigitText(n) == [i \in 1..n |-> DigitChars[(i % 10) + 1]]

TruncLengths ==
    {0, 1, HeadLen, TailLen, TruncLimit + TruncLimit}
        \cup ((TruncLimit - LenSlack)..(TruncLimit + LenSlack))

TruncInputs ==
    [n : TruncLengths, err : {<<>>, <<"e">>},
     duration : {Clamp(d) : d \in Durations}]

InitTrunc ==
    /\ ToolIdle
    /\ fnPc = "format"
    /\ fnIn \in TruncInputs
    /\ fnOut = <<>>

ApplyFormat ==
    /\ fnPc = "format"
    /\ fnOut' = CaptureFormat(DigitText(fnIn.n), fnIn.err, fnIn.duration)
    /\ fnPc' = "formatted"
    /\ UNCHANGED <<fnIn, toolVars>>

NextTrunc == ApplyFormat

SpecTrunc == InitTrunc /\ [][NextTrunc]_vars

-----------------------------------------------------------------------------
(* The claims.                                                             *)

Returned == pc \in {"done", "raised"}

NeverSpawned == launched = 0 /\ child = "none" /\ completed.kind = "none"

\* C1: a destructive tool called with confirm false starts no child and
\* returns its fixed safety-check string whatever its other parameters are;
\* a child is started only with confirm true, and then with the arguments
\* <group> delete <name> --yes.
C1_SafetyGate ==
    tool \in DestructiveTools =>
        /\ ~params.confirm =>
              /\ NeverSpawned
              /\ pc = "done"
              /\ result = <<Lit(SafetyMessage(tool))>>
        /\ launched > 0 =>
              /\ params.confirm
              /\ SubSeq(argv, 1, 5) =
                    <<"modal", DeleteGroup(tool), "delete", Val(params.name), "--yes">>

C1_Witness ==
    /\ tool = "delete_dict"
    /\ ~params.confirm
    /\ params.environment = "prod"
    /\ pc = "done"
    /\ result = <<Lit("Safety check: set confirm=True to actually delete the dict.")>>

\* C2: no exception leaves a tool function, whatever the child does and
\* whatever it prints.
C2_NoException == pc # "raised" /\ exception = "none"

\* C3: when the child of _run or of the sandbox runner is still running at
\* its timeout (timeout seconds, timeout + 60 for the sandbox), it is killed
\* and the tool returns the fixed timeout message; no child is running once
\* the tool has returned.
C3_TimeoutKills ==
    Runner(tool) \in {"run", "run_json", "sandbox"} /\ Returned =>
        /\ child # "running"
        /\ completed.kind = "timeout" =>
              /\ child = "killed"
              /\ pc = "done"
              /\ Runner(tool) = "sandbox" =>
                    /\ elapsed = params.timeout + 60
                    /\ result = <<Lit("Error: Sandbox timed out after "),
                                  Num(params.timeout + 60), Lit("s")>>
              /\ Runner(tool) # "sandbox" =>
                    /\ elapsed = RunTimeout(tool)
                    /\ result = <<Lit("Command timed out after "),
                                  Num(RunTimeout(tool)), Lit("s")>>

C3_Witness ==
    /\ tool = "run_sandbox_command"
    /\ params.timeout = 2
    /\ completed.kind = "timeout"
    /\ child = "killed"
    /\ result = <<Lit("Error: Sandbox timed out after "), Num(62), Lit("s")>>

\* C4: _streaming_capture clamps the requested duration d into [3, 60]
\* before the child is started: the wait on the child is bounded by exactly
\* min(max(d, 3), 60) seconds, lasting that long whenever the child does not
\* exit by itself, and the duration the result reports is the clamped one.
C4_DurationClamped ==
    tool \in StreamTools =>
        LET d == params.duration
            c == IF d < 3 THEN 3 ELSE IF d > 60 THEN 60 ELSE d
        IN  /\ launched > 0 => waitTimeout = c
            /\ elapsed <= c
            /\ completed.kind = "timeout" => elapsed = c
            /\ pc = "done" =>
                  \A i \in 1..Len(result) :
                      DOMAIN result[i] = {"num"} => result[i] = Num(c)

C4_Witness ==
    /\ tool = "app_logs"
    /\ params.duration = 61
    /\ waitTimeout = 60
    /\ completed.kind = "timeout"
    /\ elapsed = 60
    /\ pc = "done"
    /\ result = <<Txt(<<"a">>), Lit("\n\n(Captured "), Num(60), Lit("s of log stream)")>>

\* C5: a cleaned output of more than 30,000 characters is returned as its
\* first 5,000 characters, the truncation marker and its last 25,000
\* characters, followed by the capture note, at most 30,100 characters in
\* all; a cleaned output of up to 30,000 characters is returned whole.
C5_Truncation ==
    fnPc = "formatted" /\ fnIn.n > 0 =>
        LET n == fnIn.n
            out == DigitText(n)
            note == <<Lit("\n\n(Captured "), Num(fnIn.duration), Lit("s of log stream)")>>
        IN  /\ n > 30000 =>
                  /\ fnOut = <<Txt(SubSeq(out, 1, 5000)),
                               Lit("\n\n... [truncated middle] ...\n\n"),
                               Txt(SubSeq(out, n - 24999, n))>> \o note
                  /\ StrLen(fnOut) <= 30100
            /\ n <= 30000 => fnOut = <<Txt(out)>> \o note

C5_Witness ==
    /\ fnPc = "formatted"
    /\ fnIn.n = 30001
    /\ Len(fnOut) = 6
    /\ Len(fnOut[1].txt) = 5000
    /\ Len(fnOut[3].txt) = 25000
    /\ StrLen(fnOut) = 30060

\* C6: the result of _strip_rich holds no box-drawing character and no ANSI
\* SGR escape sequence, for every input text.
C6_StripRemovesAll ==
    fnPc = "stripped" => ~HasBox(fnOut) /\ ~HasSgr(fnOut)

\* C7: the text of the child that a tool built on _run, _run_json or
\* _streaming_capture returns holds no box-drawing character, no ANSI SGR
\* escape sequence and no run of two or more spaces, on success as on
\* failure.
C7_OutputCleaned ==
    pc = "done" /\ Runner(tool) \in {"run", "run_json", "stream"} =>
        \A i \in 1..Len(result) : IsTxt(result[i]) => IsClean(result[i].txt)

\* C8: deploy_app returns the must-be-absolute error for every path that is
\* not absolute, the file-not-found error for an absolute path that does not
\* exist, the wrong-extension error for an existing absolute path that does
\* not end in .py, and starts no child in any of the three cases.
C8_DeployChecks ==
    tool = "deploy_app" =>
        LET q == params.path IN
        /\ ~q.abs =>
              /\ result = <<Lit("Error: Path must be absolute, got: "), Val(q)>>
              /\ pc = "done" /\ NeverSpawned
        /\ q.abs /\ ~q.exists =>
              /\ result = <<Lit("Error: File not found: "), Val(q)>>
              /\ pc = "done" /\ NeverSpawned
        /\ q.abs /\ q.exists /\ q.suffix # ".py" =>
              /\ result = <<Lit("Error: Expected a .py file, got: "), Val(q.suffix)>>
              /\ pc = "done" /\ NeverSpawned

C8_Witness ==
    /\ tool = "deploy_app"
    /\ params.path = [abs |-> FALSE, exists |-> FALSE, suffix |-> ".txt"]
    /\ pc = "done"
    /\ result[1] = Lit("Error: Path must be absolute, got: ")
    /\ launched = 0

\* C9: upload_to_volume with a local path that does not exist returns
\* 'Error: Local path not found: <local_path>' and starts no child, whatever
\* volume_name, force and environment are.
C9_UploadMissingPath ==
    tool = "upload_to_volume" /\ ~params.path.exists =>
        /\ pc = "done"
        /\ result = <<Lit("Error: Local path not found: "), Val(params.path)>>
        /\ NeverSpawned

C9_Witness ==
    /\ tool = "upload_to_volume"
    /\ ~params.path.exists
    /\ params.force
    /\ params.environment = "prod"
    /\ pc = "done"
    /\ result[1] = Lit("Error: Local path not found: ")
    /\ launched = 0

\* C10: _run returns success exactly when the child exits with code 0,
\* whatever it printed; on a nonzero exit it returns failure with
\* 'Error: <cleaned stderr>', or 'Command failed (exit <code>)' when the
\* cleaned stderr is empty (an empty stderr is); when the executable is not
\* found it returns failure with the fixed 'Modal CLI not found' message.
C10_RunClassification ==
    Runner(tool) \in {"run", "run_json"} /\ Returned =>
        /\ completed.kind = "exit" =>
              LET err == IF completed.stderr = <<>> THEN <<>>
                         ELSE _strip_rich(Strip(completed.stderr))
              IN  /\ completed.rc = 0 => runRet.ok
                  /\ completed.rc # 0 =>
                        /\ ~runRet.ok
                        /\ err # <<>> => runRet.text = <<Lit("Error: "), Txt(err)>>
                        /\ err = <<>> =>
                              runRet.text = <<Lit("Command failed (exit "),
                                              Num(completed.rc), Lit(")")>>
        /\ completed.kind = "notfound" =>
              /\ ~runRet.ok
              /\ runRet.text =
                    <<Lit("Modal CLI not found. Install: pip install modal && python3 -m modal setup")>>

C10_Witness ==
    /\ tool = "stop_app"
    /\ completed.kind = "exit"
    /\ completed.rc = 1
    /\ completed.stderr = <<"BOX", "e", " ", " ", "r">>
    /\ runRet = [ok |-> FALSE, text |-> <<Lit("Error: "), Txt(<<"e", " ", "r">>)>>]
    /\ result = runRet.text

\* the first index of t that holds one of the characters of ms
FirstOf(t, ms) ==
    CHOOSE i \in 1..Len(t) : t[i] \in ms /\ \A j \in 1..(i - 1) : t[j] \notin ms

RcMarkers == {"===RC=0===", "===RC=1==="}

\* C11: the sandbox stdout reported is the text between ===STDOUT=== and
\* ===STDERR===, the sandbox stderr reported is the text between
\* ===STDERR=== and the ===RC=<code>=== marker: the marker is in no text of
\* the result, and there is a 'Stderr:' line exactly when that text is not
\* empty.
C11_SandboxSections ==
    /\ pc = "done"
    /\ Runner(tool) = "sandbox"
    /\ completed.kind = "exit"
    /\ Contains(completed.stdout, "===STDOUT===")
    =>
    LET o == completed.stdout
        iO == FirstOf(o, {"===STDOUT==="})
        iE == FirstOf(o, {"===STDERR==="})
        iR == FirstOf(o, RcMarkers)
        secOut == Strip(SubSeq(o, iO + 1, iE - 1))
        secErr == Strip(SubSeq(o, iE + 1, iR - 1))
    IN  /\ secOut # <<>> => result[1] = Txt(secOut)
        /\ secOut = <<>> => ~IsTxt(result[1])
        /\ secErr # <<>> =>
              \E i \in 1..(Len(result) - 1) :
                  result[i] = Lit("Stderr: ") /\ result[i + 1] = Txt(secErr)
        /\ secErr = <<>> => \A i \in 1..Len(result) : result[i] # Lit("Stderr: ")
        /\ \A i \in 1..Len(result) :
              IsTxt(result[i]) =>
                  \A k \in 1..Len(result[i].txt) : result[i].txt[k] \notin RcMarkers

\* C12: a tool invocation starts at most one child: a call its checks
\* reject starts none, and once the child has failed (nonzero exit, not
\* found, timeout) the tool returns without waiting on a child again.
C12_NoRetry ==
    /\ launched <= 1
    /\ pc = "waiting" => launched = 1 /\ child = "running" /\ completed.kind = "none"
    /\ Returned /\ completed.kind \in {"none", "notfound"} => launched = 0
    /\ Returned /\ completed.kind \in {"exit", "timeout"} => launched = 1

C12_Witness ==
    /\ tool = "list_apps"
    /\ completed.kind = "exit"
    /\ completed.rc = 1
    /\ ~runRet.ok
    /\ pc = "done"
    /\ result = runRet.text
    /\ launched = 1

\* C13: wherever _streaming_capture started a child, the wait lasted at
\* most the clamped duration and the child has exited or been killed when
\* the function returns; a child still running at the end of the duration
\* is killed, and what it had written to stdout is returned (cleaned, with
\* the capture note), not an error or timeout message.
C13_CaptureTerminates ==
    tool \in StreamTools /\ launched > 0 /\ Returned =>
        LET d == params.duration
            c == IF d < 3 THEN 3 ELSE IF d > 60 THEN 60 ELSE d
        IN  /\ pc = "done"
            /\ child \in {"exited", "killed"}
            /\ elapsed <= c
            /\ completed.kind = "timeout" =>
                  /\ child = "killed"
                  /\ _strip_rich(completed.stdout) # <<>> =>
                        result = <<Txt(_strip_rich(completed.stdout)),
                                   Lit("\n\n(Captured "), Num(c), Lit("s of log stream)")>>

C13_Witness ==
    /\ tool = "container_logs"
    /\ params.duration = 2
    /\ completed.kind = "timeout"
    /\ completed.stdout = <<"BOX", "a", " ", " ", "b", "LF">>
    /\ completed.stderr = <<"e">>
    /\ child = "killed"
    /\ elapsed = 3
    /\ result = <<Txt(<<"a", " ", "b">>), Lit("\n\n(Captured "), Num(3),
                  Lit("s of log stream)")>>

\* C14: _run_json hands --json to the CLI as the last argument; when _run
\* reports a failure its text is returned as it is; an empty JSON list gives
\* 'No results.', a JSON object one 'key: value' line per entry, and stdout
\* that is not JSON is returned as the text it is.
C14_RunJsonShapes ==
    tool \in JsonTools =>
        /\ launched > 0 => argv[Len(argv)] = "--json"
        /\ Returned /\ DOMAIN runRet = {"ok", "text"} =>
              /\ ~runRet.ok => pc = "done" /\ result = runRet.text
              /\ runRet.ok =>
                    LET out == Strip(completed.stdout) IN
                    /\ out = <<"[", "]">> => result = <<Lit("No results.")>>
                    /\ out = <<"{", "\"", "k", "\"", ":", "0", "}">> =>
                          result = <<Lit(""), Val("k"), Lit(": "), Val("0")>>
                    /\ out = <<"{", "\"", "k", "\"", ":", "0", ",",
                                    "\"", "j", "\"", ":", "0", "}">> =>
                          result = <<Lit(""), Val("k"), Lit(": "), Val("0"), Lit("\n"),
                                     Lit(""), Val("j"), Lit(": "), Val("0")>>
                    /\ out \in {<<"a">>, <<"BOX", "a", " ", " ", "b">>,
                                <<"ESC", "[", "0", "m", "a">>} =>
                          pc = "done" /\ result = <<Txt(out)>>

C14_Witness ==
    /\ tool = "list_volumes"
    /\ params.environment = "None"
    /\ argv = <<"modal", "volume", "list", "--json">>
    /\ completed.kind = "exit"
    /\ completed.rc = 0
    /\ completed.stdout = <<"[", "]">>
    /\ pc = "done"
    /\ result = <<Lit("No results.")>>

\* C15: the script file run_sandbox_command writes is there while the
\* runner is waited on and is deleted when the call ends, whether the runner
\* exited, timed out or could not be started.
C15_ScriptDeleted ==
    Runner(tool) = "sandbox" =>
        /\ pc = "waiting" => tmpFile = "written"
        /\ Returned => tmpFile = "deleted"

C15_Witness ==
    /\ tool = "run_python_in_sandbox"
    /\ pc = "raised"
    /\ exception = "FileNotFoundError"
    /\ tmpFile = "deleted"

====
